---- MODULE Spec2Model ----
(***************************************************************************)
(* Model of hooks/post_gen_project.py: the post-generation hook that       *)
(* resolves a minimum Python version, patches pyproject.toml and binds the *)
(* project's toolchain with "pdm use".                                     *)
(*                                                                         *)
(* A Python str is a sequence of one-character strings, so that the        *)
(* regular expressions, strip(), splitlines(), split() and join() of the   *)
(* source are computed character by character.                             *)
(***************************************************************************)
EXTENDS Integers, Sequences, FiniteSets, TLC

VARIABLES
    pc,                 \* position inside main(), or of the patch harness
    placeholder,        \* the rendered "{{cookiecutter.min_python}}" literal
    min_python,         \* local min_python of main()
    tool,               \* outcome of "pyenv versions --bare"
    installed_versions, \* local installed_versions of main()
    latest_version,     \* local latest_version of main()
    file0,              \* pyproject.toml before the run
    file,               \* pyproject.toml now
    out,                \* lines printed so far
    trace,              \* external steps performed so far, in order
    failure,            \* exception that ended the process, or "none"
    actArg,             \* version interpolated into the "pdm use" command
    actExit,            \* exit status of the "pdm use" command, -1 before it
    target,             \* patch harness: python_version argument
    once,               \* patch harness: content after the first call
    twice               \* patch harness: content after the second call

vars == <<pc, placeholder, min_python, tool, installed_versions,
          latest_version, file0, file, out, trace, failure, actArg,
          actExit, target, once, twice>>

(***************************************************************************)
(* Bounds                                                                  *)
(***************************************************************************)
MaxVersions == 2    \* lines printed by the version-listing tool
MaxRunSegs == 3     \* segments of pyproject.toml in a run of main()
MaxFileSegs == 5    \* segments of pyproject.toml in the patch harness

(***************************************************************************)
(* Characters and strings                                                  *)
(***************************************************************************)
NL == "\n"
Q == "\""
Digits == {"0", "1", "2", "3", "4", "5", "6", "7", "8", "9"}
Whitespace == {" ", "\t", "\n"}

None == <<"None">>

Max(S) == CHOOSE x \in S : \A y \in S : y <= x
Min(S) == CHOOSE x \in S : \A y \in S : x <= y

InSeq(x, s) == \E i \in 1..Len(s) : s[i] = x
Count(x, s) == Cardinality({i \in 1..Len(s) : s[i] = x})

RECURSIVE Concat(_)
Concat(ss) == IF ss = <<>> THEN <<>> ELSE Head(ss) \o Concat(Tail(ss))

RECURSIVE SeqsUpTo(_, _)
SeqsUpTo(S, n) ==
    IF n = 0 THEN {<<>>}
    ELSE LET shorter == SeqsUpTo(S, n - 1)
         IN  shorter \cup {Append(s, x) : s \in shorter, x \in S}

\* str.strip(): drop leading and trailing whitespace
Strip(s) ==
    LET keep == {i \in 1..Len(s) : s[i] \notin Whitespace}
    IN  IF keep = {} THEN <<>> ELSE SubSeq(s, Min(keep), Max(keep))

\* str.split(sep) for a one-character separator
RECURSIVE Split(_, _)
Split(s, sep) ==
    LET at == {i \in 1..Len(s) : s[i] = sep}
    IN  IF at = {} THEN <<s>>
        ELSE <<SubSeq(s, 1, Min(at) - 1)>>
                 \o Split(SubSeq(s, Min(at) + 1, Len(s)), sep)

\* sep.join(parts)
RECURSIVE Join(_, _)
Join(parts, sep) ==
    IF parts = <<>> THEN <<>>
    ELSE IF Len(parts) = 1 THEN parts[1]
    ELSE parts[1] \o <<sep>> \o Join(Tail(parts), sep)

\* str.splitlines(): no empty last line after a final line break
RECURSIVE SplitLines(_)
SplitLines(s) ==
    LET at == {i \in 1..Len(s) : s[i] = NL}
    IN  IF s = <<>> THEN <<>>
        ELSE IF at = {} THEN <<s>>
        ELSE <<SubSeq(s, 1, Min(at) - 1)>>
                 \o SplitLines(SubSeq(s, Min(at) + 1, Len(s)))

\* parts[:n]
Take(parts, n) == SubSeq(parts, 1, IF Len(parts) < n THEN Len(parts) ELSE n)

(***************************************************************************)
(* get_installed_python_versions (lines 7-20)                              *)
(***************************************************************************)
Str36 == <<"3", ".", "6", ".", "9">>
Str311 == <<"3", ".", "1", "1", ".", "0">>
Str27 == <<"2", ".", "7", ".", "1", "8">>
StrDev == <<"3", ".", "9", "-", "d", "e", "v">>

\* lines the version-listing tool may print
VersionPool == {Str36, Str311, Str27, StrDev}

\* stdout of the tool: each line followed by a line break
RECURSIVE Stdout(_)
Stdout(lines) ==
    IF lines = <<>> THEN <<>> ELSE Head(lines) \o <<NL>> \o Stdout(Tail(lines))

ToolOutputs == {Stdout(ls) : ls \in SeqsUpTo(VersionPool, MaxVersions)}

\* result.stdout.strip().splitlines()
ParseVersions(stdout) == SplitLines(Strip(stdout))

(***************************************************************************)
(* get_latest_installed_python_version (lines 23-31)                       *)
(***************************************************************************)
\* variant: the pattern r"^\d+\.\d+\.\d+$", any major version
PatternMatchAnyMajor(v) ==
    LET n == IF Len(v) > 0 /\ v[Len(v)] = NL THEN Len(v) - 1 ELSE Len(v)
        dots == {i \in 1..n : v[i] = "."}
    IN  /\ Cardinality(dots) = 2
        /\ Min(dots) > 1 /\ Max(dots) > Min(dots) + 1 /\ Max(dots) < n
        /\ \A i \in (1..n) \ dots : v[i] \in Digits

\* re.compile(r"^3\.\d+\.\d+$").match(v); "$" also matches just before a
\* line break that ends the string
PatternMatch(v) ==
    LET n == IF Len(v) > 0 /\ v[Len(v)] = NL THEN Len(v) - 1 ELSE Len(v)
    IN  /\ n >= 5
        /\ v[1] = "3"
        /\ v[2] = "."
        /\ \E d \in 4..(n - 1) :
              /\ v[d] = "."
              /\ \A i \in 3..(d - 1) : v[i] \in Digits
              /\ \A i \in (d + 1)..n : v[i] \in Digits

\* [v for v in installed_versions if pattern.match(v)]
RECURSIVE ValidInstalledVersions(_)
ValidInstalledVersions(vs) ==
    IF vs = <<>> THEN <<>>
    ELSE (IF PatternMatch(Head(vs)) THEN <<Head(vs)>> ELSE <<>>)
             \o ValidInstalledVersions(Tail(vs))

\* ".".join(latest_installed_version.split(".")[:2])
MajorMinor(v) == Join(Take(Split(v, "."), 2), ".")

\* variant: valid_installed_versions[0] instead of [-1]
get_first_installed_python_version(vs) ==
    LET valid == ValidInstalledVersions(vs)
    IN  IF valid # <<>> THEN MajorMinor(valid[1]) ELSE None

get_latest_installed_python_version(vs) ==
    LET valid == ValidInstalledVersions(vs)
    IN  IF valid # <<>> THEN MajorMinor(valid[Len(valid)]) ELSE None

(***************************************************************************)
(* update_pyproject_toml (lines 34-43)                                     *)
(***************************************************************************)
\* the literal prefix of the pattern r'requires-python = ".*"'
Key == <<"r", "e", "q", "u", "i", "r", "e", "s", "-", "p", "y", "t", "h",
         "o", "n", " ", "=", " ", "\"">>

KeyAt(s, i) ==
    /\ i + Len(Key) - 1 <= Len(s)
    /\ SubSeq(s, i, i + Len(Key) - 1) = Key

\* index one past the end of the line holding position i
LineEnd(s, i) ==
    LET nls == {j \in i..Len(s) : s[j] = NL}
    IN  IF nls = {} THEN Len(s) + 1 ELSE Min(nls)

\* variant: the pattern r'requires-python = ".*?"', the match stops at the
\* first double quote after the key
MatchEndLazy(s, i) ==
    IF ~KeyAt(s, i) THEN 0
    ELSE LET from == i + Len(Key)
             quotes == {j \in from..(LineEnd(s, from) - 1) : s[j] = Q}
         IN  IF quotes = {} THEN 0 ELSE Min(quotes)

\* variant: the pattern r'requires-python = "', the old value is not matched
MatchEndKeyOnly(s, i) ==
    IF ~KeyAt(s, i) THEN 0 ELSE i + Len(Key) - 1

\* end of the match of the pattern starting at i, 0 when there is none:
\* ".*" is greedy and "." does not match a line break, so the match runs to
\* the last double quote of the line
MatchEnd(s, i) ==
    IF ~KeyAt(s, i) THEN 0
    ELSE LET from == i + Len(Key)
             quotes == {j \in from..(LineEnd(s, from) - 1) : s[j] = Q}
         IN  IF quotes = {} THEN 0 ELSE Max(quotes)

\* f'requires-python = "{python_version}"'
Replacement(python_version) == Key \o python_version \o <<Q>>

\* re.sub(pattern, replacement, content): every non-overlapping match,
\* scanning from the left
RECURSIVE SubFrom(_, _, _)
SubFrom(s, repl, i) ==
    IF i > Len(s) THEN <<>>
    ELSE LET e == MatchEnd(s, i)
         IN  IF e > 0 THEN repl \o SubFrom(s, repl, e + 1)
             ELSE <<s[i]>> \o SubFrom(s, repl, i + 1)

\* variant: re.sub(..., count=1)
RECURSIVE SubFirstFrom(_, _, _)
SubFirstFrom(s, repl, i) ==
    IF i > Len(s) THEN <<>>
    ELSE LET e == MatchEnd(s, i)
         IN  IF e > 0 THEN repl \o SubSeq(s, e + 1, Len(s))
             ELSE <<s[i]>> \o SubFirstFrom(s, repl, i + 1)

update_first_only(content, python_version) ==
    SubFirstFrom(content, Replacement(python_version), 1)

update_pyproject_toml(content, python_version) ==
    SubFrom(content, Replacement(python_version), 1)

\* pieces pyproject.toml is assembled from
Segments == {Key, <<Q>>, <<NL>>, <<"a">>}
Files(n) == {Concat(ss) : ss \in SeqsUpTo(Segments, n)}

(***************************************************************************)
(* main (lines 46-67)                                                      *)
(***************************************************************************)
Default == <<">", "=", "3", ".", "8">>
Placeholders == {<<>>, <<" ">>, <<"3", ".", "9">>}

\* not min_python.strip()
Blank(s) == Strip(s) = <<>>

\* "if latest_version:" -- None and the empty string are false
Truthy(v) == v # None /\ v # <<>>

Init ==
    /\ pc = "check"
    /\ placeholder \in Placeholders
    /\ min_python = placeholder
    /\ tool = "none"
    /\ installed_versions = <<>>
    /\ latest_version = None
    /\ file0 \in Files(MaxRunSegs)
    /\ file = file0
    /\ out = <<>>
    /\ trace = <<>>
    /\ failure = "none"
    /\ actArg = None
    /\ actExit = -1
    /\ target = <<>>
    /\ once = <<>>
    /\ twice = <<>>

harness == <<target, once, twice>>
activation == <<actArg, actExit>>

\* variant: "if min_python.strip():", the test inverted
CheckPlaceholderInverted ==
    /\ pc = "check"
    /\ pc' = IF Blank(min_python) THEN "activate" ELSE "discover"
    /\ UNCHANGED <<placeholder, min_python, tool, installed_versions,
                   latest_version, file0, file, out, trace, failure,
                   activation, harness>>

\* line 49
CheckPlaceholder ==
    /\ pc = "check"
    /\ pc' = IF Blank(min_python) THEN "discover" ELSE "activate"
    /\ UNCHANGED <<placeholder, min_python, tool, installed_versions,
                   latest_version, file0, file, out, trace, failure,
                   activation, harness>>

\* line 50: the tool cannot be started (subprocess.run raises
\* FileNotFoundError), exits non-zero, or prints its list
Discover ==
    /\ pc = "discover"
    /\ trace' = Append(trace, "list")
    /\ \/ /\ tool' = "unavailable"
          /\ failure' = "FileNotFoundError"
          /\ pc' = "crashed"
          /\ UNCHANGED installed_versions
       \/ /\ tool' = "nonzero"
          /\ installed_versions' = <<>>
          /\ pc' = "select"
          /\ UNCHANGED failure
       \/ /\ tool' = "ok"
          /\ \E stdout \in ToolOutputs :
                installed_versions' = ParseVersions(stdout)
          /\ pc' = "select"
          /\ UNCHANGED failure
    /\ UNCHANGED <<placeholder, min_python, latest_version, file0, file, out,
                   activation, harness>>

\* lines 51-54 and 56-58
Select ==
    /\ pc = "select"
    /\ latest_version' = get_latest_installed_python_version(installed_versions)
    /\ IF Truthy(latest_version')
       THEN /\ min_python' = <<">", "=">> \o latest_version'
            /\ out' = Append(out, "Using latest installed Python version")
       ELSE /\ min_python' = Default
            /\ out' = Append(out, "Warning: Could not determine latest Python version. Using default.")
    /\ pc' = "update"
    /\ UNCHANGED <<placeholder, tool, installed_versions, file0, file, trace,
                   failure, activation, harness>>

\* variant: the file is always patched with the default
UpdateDefault ==
    /\ pc = "update"
    /\ \/ /\ file' = update_pyproject_toml(file, Default)
          /\ trace' = Append(trace, "rewrite")
          /\ pc' = "activate"
          /\ UNCHANGED failure
       \/ /\ failure' = "OSError"
          /\ pc' = "crashed"
          /\ UNCHANGED <<file, trace>>
    /\ UNCHANGED <<placeholder, min_python, tool, installed_versions,
                   latest_version, file0, out, activation, harness>>

\* lines 55 and 59: open() raises OSError when the file cannot be opened
Update ==
    /\ pc = "update"
    /\ \/ /\ file' = update_pyproject_toml(file, min_python)
          /\ trace' = Append(trace, "rewrite")
          /\ pc' = "activate"
          /\ UNCHANGED failure
       \/ /\ failure' = "OSError"
          /\ pc' = "crashed"
          /\ UNCHANGED <<file, trace>>
    /\ UNCHANGED <<placeholder, min_python, tool, installed_versions,
                   latest_version, file0, out, activation, harness>>

\* variant: check=False, a non-zero exit is ignored
ActivateUnchecked ==
    /\ pc = "activate"
    /\ actArg' = min_python
    /\ trace' = Append(trace, "activate")
    /\ \E code \in {0, 1} : actExit' = code
    /\ pc' = "done"
    /\ out' = out \o <<"Using Python version specified in pyproject.toml",
                       "Project setup complete!">>
    /\ UNCHANGED <<placeholder, min_python, tool, installed_versions,
                   latest_version, file0, file, failure, harness>>

\* variant: a failed activation is tried once more
ActivateRetry ==
    /\ pc = "activate"
    /\ actArg' = min_python
    /\ trace' = Append(trace, "activate")
    /\ \/ /\ actExit' = 0
          /\ pc' = "done"
          /\ out' = out \o <<"Using Python version specified in pyproject.toml",
                             "Project setup complete!">>
          /\ UNCHANGED failure
       \/ /\ actExit' = 1
          /\ ~InSeq("activate", trace)
          /\ pc' = "activate"
          /\ UNCHANGED <<out, failure>>
       \/ /\ actExit' = 1
          /\ InSeq("activate", trace)
          /\ pc' = "crashed"
          /\ failure' = "CalledProcessError"
          /\ UNCHANGED out
    /\ UNCHANGED <<placeholder, min_python, tool, installed_versions,
                   latest_version, file0, file, harness>>

\* lines 62-67: check=True raises CalledProcessError on a non-zero exit
Activate ==
    /\ pc = "activate"
    /\ actArg' = min_python
    /\ trace' = Append(trace, "activate")
    /\ \/ /\ actExit' = 0
          /\ pc' = "done"
          /\ out' = out \o <<"Using Python version specified in pyproject.toml",
                             "Project setup complete!">>
          /\ UNCHANGED failure
       \/ /\ actExit' = 1
          /\ pc' = "crashed"
          /\ failure' = "CalledProcessError"
          /\ UNCHANGED out
    /\ UNCHANGED <<placeholder, min_python, tool, installed_versions,
                   latest_version, file0, file, harness>>

Next == CheckPlaceholder \/ Discover \/ Select \/ Update \/ Activate

Spec == Init /\ [][Next]_vars

(***************************************************************************)
(* update_pyproject_toml called twice in a row with one python_version     *)
(***************************************************************************)
\* the values main() passes: the default, or ">=" and a selected version
TargetVersions ==
    {Default} \cup {<<">", "=">> \o get_latest_installed_python_version(<<v>>) :
                       v \in {w \in VersionPool : PatternMatch(w)}}

PatchInit ==
    /\ pc = "patch"
    /\ placeholder = <<>>
    /\ min_python = <<>>
    /\ tool = "none"
    /\ installed_versions = <<>>
    /\ latest_version = None
    /\ file0 \in Files(MaxFileSegs)
    /\ file = file0
    /\ out = <<>>
    /\ trace = <<>>
    /\ failure = "none"
    /\ actArg = None
    /\ actExit = -1
    /\ target \in TargetVersions
    /\ once = <<>>
    /\ twice = <<>>

run == <<placeholder, min_python, tool, installed_versions, latest_version,
         out, trace, failure, actArg, actExit>>

PatchOnce ==
    /\ pc = "patch"
    /\ file' = update_pyproject_toml(file, target)
    /\ once' = file'
    /\ pc' = "patched"
    /\ UNCHANGED <<run, file0, target, twice>>

PatchAgain ==
    /\ pc = "patched"
    /\ file' = update_pyproject_toml(file, target)
    /\ twice' = file'
    /\ pc' = "repatched"
    /\ UNCHANGED <<run, file0, target, once>>

PatchNext == PatchOnce \/ PatchAgain

PatchSpec == PatchInit /\ [][PatchNext]_vars

(***************************************************************************)
(* Vocabulary of the properties                                            *)
(***************************************************************************)
Warning == "Warning: Could not determine latest Python version. Using default."
Complete == "Project setup complete!"

\* a string of the form 3.MINOR.PATCH
AllDigits(w) == Len(w) > 0 /\ \A i \in 1..Len(w) : w[i] \in Digits
IsThreeMinorPatch(v) ==
    LET dots == {i \in 1..Len(v) : v[i] = "."}
    IN  /\ Cardinality(dots) = 2
        /\ SubSeq(v, 1, Min(dots) - 1) = <<"3">>
        /\ AllDigits(SubSeq(v, Min(dots) + 1, Max(dots) - 1))
        /\ AllDigits(SubSeq(v, Max(dots) + 1, Len(v)))

\* a string of the form 3.MINOR
IsThreeMinor(m) ==
    Len(m) >= 3 /\ m[1] = "3" /\ m[2] = "." /\ AllDigits(SubSeq(m, 3, Len(m)))

Matching(vs) == {i \in 1..Len(vs) : IsThreeMinorPatch(vs[i])}

\* main() took the discovery branch and has resolved min_python
Selected == Blank(placeholder) /\ out # <<>>

\* the file rewrite of main() has completed
Rewrote == InSeq("rewrite", trace)

\* the "pdm use" command has been invoked
Activated == actArg # None

\* the lines of a file, line breaks removed
Lines(s) == Split(s, NL)

\* positions of a line where the key starts and a double quote follows
MatchStarts(l) ==
    {k \in 1..Len(l) : KeyAt(l, k) /\ \E j \in (k + Len(Key))..Len(l) : l[j] = Q}
MatchingLines(ls) == {i \in 1..Len(ls) : MatchStarts(ls[i]) # {}}

LastQuote(l) == Max({j \in 1..Len(l) : l[j] = Q})
ClosingQuote(l) ==
    Min({j \in (Min(MatchStarts(l)) + Len(Key))..Len(l) : l[j] = Q})

\* the line with everything from the key to the quote at position e
\* replaced by the assignment of v
Assigned(l, e, v) ==
    SubSeq(l, 1, Min(MatchStarts(l)) - 1) \o Key \o v \o <<Q>>
        \o SubSeq(l, e + 1, Len(l))

\* the line assigns exactly v: nothing but v between the key and the last
\* double quote of the line
Holds(l, v) == l = Assigned(l, LastQuote(l), v)

(***************************************************************************)
(* C1: whenever the placeholder is unset and the version-listing tool      *)
(* cannot be started or exits non-zero, discovery yields the empty list    *)
(* without raising and the run goes on with the default ">=3.8".           *)
(* Violated: a tool that cannot be started makes subprocess.run raise.     *)
(***************************************************************************)
C1_DiscoveryNeverFatal ==
    (Blank(placeholder) /\ tool \in {"unavailable", "nonzero"}) =>
        /\ failure # "FileNotFoundError"
        /\ installed_versions = <<>>
        /\ pc \in {"update", "activate", "done"} => min_python = Default

(***************************************************************************)
(* C2: if some listed version has the form 3.MINOR.PATCH, the selection is *)
(* the well-formed 3.MINOR string of the last such entry in list order,    *)
(* whatever surrounds it, and the resolved constraint is ">=" that string. *)
(***************************************************************************)
C2_LastMatchingSelected ==
    (Selected /\ Matching(installed_versions) # {}) =>
        LET v == installed_versions[Max(Matching(installed_versions))]
            dots == {i \in 1..Len(v) : v[i] = "."}
        IN  /\ latest_version = SubSeq(v, 1, Max(dots) - 1)
            /\ IsThreeMinor(latest_version)
            /\ min_python = <<">", "=">> \o latest_version

C2_Witness ==
    /\ Selected
    /\ installed_versions \in {<<Str311, Str36>>, <<Str27, Str36>>}
    /\ min_python = <<">", "=", "3", ".", "6">>

(***************************************************************************)
(* C3: if no listed version has the form 3.MINOR.PATCH, selection returns  *)
(* None, main prints the warning, resolves min_python to ">=3.8", and the  *)
(* file it goes on to rewrite is the original patched with ">=3.8".        *)
(***************************************************************************)
C3_DefaultFallback ==
    (Selected /\ Matching(installed_versions) = {}) =>
        /\ latest_version = None
        /\ out[1] = Warning
        /\ min_python = Default
        /\ pc # "update" /\ failure # "OSError" =>
              /\ Rewrote
              /\ file = update_pyproject_toml(file0, Default)

C3_Witness ==
    /\ Selected
    /\ installed_versions \in {<<Str27>>, <<StrDev, Str27>>}
    /\ pc = "activate"
    /\ file # file0

C3_WitnessEmpty ==
    /\ Selected
    /\ tool = "ok"
    /\ installed_versions = <<>>
    /\ pc = "done"

C5_Idempotent == pc = "repatched" => twice = once

C5_Witness ==
    /\ pc = "repatched"
    /\ once # file0
    /\ MatchingLines(Lines(file0)) # {}

(***************************************************************************)
(* C6: a non-zero exit of the toolchain activation ends the process with a *)
(* failure; completion is never printed and the step ran exactly once.     *)
(***************************************************************************)
C6_ActivationFailureFatal ==
    actExit = 1 =>
        /\ pc = "crashed"
        /\ failure = "CalledProcessError"
        /\ ~InSeq(Complete, out)
        /\ Count("activate", trace) = 1
        /\ ~ENABLED Next

C6_Witness == actExit = 1 /\ pc = "crashed" /\ Blank(placeholder)

C9_LinearFlow ==
    /\ trace \in {<<>>, <<"list">>, <<"list", "rewrite">>,
                  <<"list", "rewrite", "activate">>, <<"activate">>}
    /\ Activated => ~Blank(actArg)
    /\ (Activated /\ Blank(placeholder)) => Selected /\ Rewrote
    /\ Rewrote => Selected /\ ~Blank(min_python)
    /\ pc \in {"discover", "select"} => Blank(min_python) /\ ~Activated

C9_Witness ==
    /\ trace = <<"list", "rewrite", "activate">>
    /\ pc = "done"
    /\ tool = "ok"

(***************************************************************************)
(* C10: with a non-blank placeholder main() never lists versions and never *)
(* opens or rewrites the file; it only activates the toolchain with the    *)
(* placeholder value verbatim.                                             *)
(***************************************************************************)
C10_PlaceholderSkipsPatch ==
    ~Blank(placeholder) =>
        /\ tool = "none"
        /\ trace \in {<<>>, <<"activate">>}
        /\ file = file0
        /\ failure \in {"none", "CalledProcessError"}
        /\ min_python = placeholder
        /\ Activated => actArg = placeholder

C10_Witness ==
    /\ ~Blank(placeholder)
    /\ pc = "done"
    /\ actArg = placeholder
    /\ MatchingLines(Lines(file0)) # {}

====
